---- MODULE Spec2Model ----
(***************************************************************************)
(* fastplotlib: the graphic classes (graphics/graphics.py) and the Plot    *)
(* factory (plot.py) as a state machine.                                   *)
(*                                                                         *)
(* Python values are records tagged with their type in field t.  A NumPy   *)
(* array is [t, dtype, shape, flat]: its shape and its elements in row     *)
(* order.                                                                  *)
(*                                                                         *)
(* A floating-point number is an integer count of a fixed power-of-two     *)
(* unit.  Colour channels and alpha count units of 2^-25 (One = 1.0);      *)
(* positions, samples, bin edges and scale factors count units of 1.       *)
(* Rounding to float32 keeps 24 significant bits whatever the unit.        *)
(***************************************************************************)
EXTENDS Integers, Sequences, FiniteSets, Bags, TLC

VARIABLES heap, registered, last, nextId

vars == <<heap, registered, last, nextId>>

(* ------------------------------ bounds -------------------------------- *)

\* Largest number of rows of a data array, of explicit colours, of labels.
MaxN == 3

\* Largest bin edge / sample value of a histogram input.
MaxEdge == 3

\* Largest number of graphics a client creates through one Plot.
MaxGraphics == 2

(* --------------------------- Python values ---------------------------- *)

PyNone == [t |-> "NoneType"]

PyFalse == [t |-> "bool", b |-> FALSE]

PyStr(s) == [t |-> "str", s |-> s]

PyInt(x) == [t |-> "int", x |-> x]

PyList(v) == [t |-> "list", v |-> v]

NdArray(dtype, shp, flat) == [t |-> "ndarray", dtype |-> dtype, shape |-> shp, flat |-> flat]

\* A 1-D array of the given elements.
Array1(dtype, v) == NdArray(dtype, <<Len(v)>>, v)

\* The elements of a non-empty sequence of equally long rows, in row order.
Flatten(rows) ==
    LET d == Len(rows[1])
    IN  [k \in 1..(Len(rows) * d) |-> rows[((k - 1) \div d) + 1][((k - 1) % d) + 1]]

\* A 2-D array of the given rows (at least one).
Array2(dtype, rows) == NdArray(dtype, <<Len(rows), Len(rows[1])>>, Flatten(rows))

IsNone(x) == x.t = "NoneType"

\* ndarray.shape, ndarray.ndim
shape(a) == a.shape

ndim(a) == Len(a.shape)

\* The rows of a 2-D array.
Rows(a) ==
    [i \in 1..a.shape[1] |-> SubSeq(a.flat, (i - 1) * a.shape[2] + 1, i * a.shape[2])]

\* 1.0 and 0.5 in colour units of 2^-25.
One == 2^25

Half == 2^24

(* ------------------------------ float32 ------------------------------- *)

Abs(n) == IF n < 0 THEN -n ELSE n

RECURSIVE Ulp(_)
\* The spacing of float32 values around the magnitude n: 1 below 2^24.
Ulp(n) == IF n < 2^24 THEN 1 ELSE 2 * Ulp(n \div 2)

\* Round-to-nearest, ties-to-even, of a magnitude onto the multiples of q.
RoundHalfEven(n, q) ==
    LET lo == (n \div q) * q
        r  == n - lo
    IN  IF 2 * r < q THEN lo
        ELSE IF 2 * r > q THEN lo + q
        ELSE IF (lo \div q) % 2 = 0 THEN lo ELSE lo + q

\* One number cast to float32.
Float32(n) == IF n < 0 THEN -RoundHalfEven(Abs(n), Ulp(Abs(n)))
              ELSE RoundHalfEven(n, Ulp(n))

\* ndarray.astype(np.float32)
astype_float32(a) ==
    NdArray("float32", a.shape, [i \in DOMAIN a.flat |-> Float32(a.flat[i])])

(* ------------------------------ errors -------------------------------- *)

\* What a call raised: "" when it returned normally, else the exception.
NoError == ""

ErrUnknownColorFormat == "ValueError: Unknown color format"

ErrColorsShape == "ValueError: Colors array must have ndim == 2 and shape of [n_datapoints, 4]"

ErrPreComputedKeys == "ValueError: pre_computed must be a dict with keys hist and bin_edges"

ErrPreComputedValues == "ValueError: pre_computed must be a dict where the values are numpy.ndarray"

\* Unknown colormap name, raised by the colormap collaborator.
ErrLookup == "LookupError: unknown colormap"

\* Raised by NumPy: np.unique(None, axis=0), a boolean mask of the wrong
\* length, an assignment that does not broadcast, arrays that do not stack.
ErrAxis == "AxisError: axis 0 is out of bounds for array of dimension 0"

ErrIndex == "IndexError: boolean index did not match indexed array"

ErrBroadcast == "ValueError: could not broadcast input array"

ErrStack == "ValueError: all the input array dimensions must match"

\* Raised by pygfx.Geometry when it does not accept colors=None.
ErrGeometry == "TypeError: pygfx.Geometry cannot wrap None"

(* ---------------------- colormap collaborators ------------------------ *)

\* The colormap names the colormap collaborator knows.
KnownCmaps == {"plasma"}

\* The RGB of position k of a colormap: an abstract, deterministic table.
CmapRGB(name, k) == <<k, One, 0>>

\* utils.get_colors: n colours sampled along the map, at the given alpha.
get_colors(n_colors, cmap, alpha) ==
    IF cmap.s \notin KnownCmaps
    THEN [raised |-> ErrLookup, val |-> PyNone]
    ELSE [raised |-> NoError,
          val |-> Array2("float32",
                         [i \in 1..n_colors |-> CmapRGB(cmap.s, i - 1) \o <<alpha>>])]

\* utils.map_labels_to_colors: one colour per label, as a list of rows.
map_labels_to_colors(labels, cmap, alpha) ==
    IF cmap.s \notin KnownCmaps
    THEN [raised |-> ErrLookup, val |-> PyNone]
    ELSE [raised |-> NoError,
          val |-> Array2("float64",
                         [i \in DOMAIN labels.flat |->
                             CmapRGB(cmap.s, labels.flat[i]) \o <<alpha>>])]

(* ------------------------------ _Graphic ------------------------------ *)

\* np.vstack([[1., 1., 1., 1.]] * colors_length)
white(colors_length) ==
    Array2("float64", [i \in 1..colors_length |-> <<One, One, One, One>>])

\* The mutant: the row count of explicit colours is not compared.
is_rgba_of_anyLength(colors, colors_length) ==
    ndim(colors) = 2 /\ shape(colors)[2] = 4

\* The test of the explicit-RGBA branch.
is_rgba_of(colors, colors_length) ==
    ndim(colors) = 2 /\ shape(colors)[2] = 4 /\ shape(colors)[1] = colors_length

\* The test of the labels branch: a 1-D array of an integer dtype.
is_labels(colors) ==
    ndim(colors) = 1 /\ colors.dtype = "int64"

\* _Graphic._set_colors: what it raises ("" when it returns) and self.colors
\* after it.
_set_colors(self_colors, colors, colors_length, cmap, alpha) ==
    IF IsNone(colors) /\ IsNone(cmap)
    THEN [raised |-> NoError, colors |-> astype_float32(white(colors_length))]
    ELSE IF IsNone(colors) /\ ~IsNone(cmap)
    THEN LET r == get_colors(colors_length, cmap, alpha)
         IN  IF r.raised # NoError THEN [raised |-> r.raised, colors |-> self_colors]
             ELSE [raised |-> NoError, colors |-> r.val]
    ELSE IF (~IsNone(colors)) /\ IsNone(cmap)
    THEN IF is_rgba_of(colors, colors_length)
         THEN [raised |-> NoError, colors |-> astype_float32(colors)]
         ELSE [raised |-> ErrColorsShape, colors |-> self_colors]
    ELSE IF (~IsNone(colors)) /\ ~IsNone(cmap)
    THEN IF is_labels(colors)
         THEN LET r == map_labels_to_colors(colors, cmap, alpha)
              IN  IF r.raised # NoError THEN [raised |-> r.raised, colors |-> self_colors]
                  ELSE [raised |-> NoError, colors |-> astype_float32(r.val)]
         ELSE [raised |-> NoError, colors |-> self_colors]
    ELSE [raised |-> ErrUnknownColorFormat, colors |-> self_colors]

\* What a call of _set_colors was given and how it ended; called = FALSE when
\* the constructor never reached it.
NoSetColors == [called |-> FALSE]

\* _Graphic.__init__: what it raises, the object's fields when it ends, and the
\* record of its _set_colors call.
_Graphic_init(data, colors, colors_length, cmap, alpha) ==
    LET self_data == astype_float32(data)
        n  == IF IsNone(colors_length) THEN shape(self_data)[1] ELSE colors_length.x
    IN  IF colors.t = "bool"
        THEN [raised |-> NoError, self |-> [data |-> self_data, colors |-> PyNone],
              sc |-> NoSetColors]
        ELSE LET r == _set_colors(PyNone, colors, n, cmap, alpha)
             IN  [raised |-> r.raised,
                  self |-> [data |-> self_data, colors |-> r.colors],
                  sc |-> [called |-> TRUE, colors |-> colors, colors_length |-> n,
                          cmap |-> cmap, alpha |-> alpha, raised |-> r.raised,
                          self_colors |-> r.colors]]

\* _Graphic.update_data: does nothing.
_Graphic_update_data(self, data) == [raised |-> NoError, self |-> self]

(* ------------------------------- NumPy -------------------------------- *)

\* Lexicographic order of two rows of equal length.
RowLess(a, b) ==
    \E k \in DOMAIN a : a[k] < b[k] /\ \A j \in 1..(k - 1) : a[j] = b[j]

RECURSIVE SortRows(_)
\* The rows of a set, in increasing lexicographic order.
SortRows(S) ==
    IF S = {} THEN <<>>
    ELSE LET m == CHOOSE r \in S : \A o \in S \ {r} : RowLess(r, o)
         IN  <<m>> \o SortRows(S \ {m})

\* np.unique(a, axis=0): the distinct rows of a 2-D array, sorted.
np_unique_rows(a) == SortRows({Rows(a)[i] : i \in 1..a.shape[1]})

\* The mutant: the mask selects the rows of every colour but the given one.
row_mask_inverted(colors, color) == [i \in 1..colors.shape[1] |-> Rows(colors)[i] # color]

\* np.all(colors == color, axis=1): one boolean per row.
row_mask(colors, color) == [i \in 1..colors.shape[1] |-> Rows(colors)[i] = color]

\* The elements of v at the places where mask is TRUE, in order.
Compress(v, mask) ==
    LET F[i \in 0..Len(v)] ==
            IF i = 0 THEN <<>>
            ELSE IF mask[i] THEN Append(F[i - 1], v[i]) ELSE F[i - 1]
    IN  F[Len(v)]

\* a[mask] for a boolean mask over the first axis (the mask has a's length).
bool_index(a, mask) ==
    IF ndim(a) = 1 THEN Array1(a.dtype, Compress(a.flat, mask))
    ELSE LET rows == Compress(Rows(a), mask)
         IN  IF rows = <<>> THEN NdArray(a.dtype, <<0, a.shape[2]>>, <<>>)
             ELSE Array2(a.dtype, rows)

\* Whether an array of shape src can be assigned to a 2-D array of shape dst.
broadcastable(src, dst) ==
    LET s2 == IF Len(src) = 1 THEN <<1, src[1]>> ELSE src
    IN  /\ (s2[1] = dst[1] \/ s2[1] = 1)
        /\ (s2[2] = dst[2] \/ s2[2] = 1)

\* The value of a 2-D float32 array of shape dst after `target[:] = src`.
broadcast_to(src, dst) ==
    LET r == IF ndim(src) = 1 THEN 1 ELSE src.shape[1]
        c == IF ndim(src) = 1 THEN src.shape[1] ELSE src.shape[2]
    IN  NdArray("float32", dst,
                [k \in 1..(dst[1] * dst[2]) |->
                    LET i == ((k - 1) \div dst[2]) + 1
                        j == ((k - 1) % dst[2]) + 1
                    IN  Float32(src.flat[((IF r = 1 THEN 1 ELSE i) - 1) * c
                                         + (IF c = 1 THEN 1 ELSE j)])])

(* ------------------------------- pygfx -------------------------------- *)

\* The latest call of update_range on a buffer or texture: its arguments.
NotCalled == [called |-> FALSE, args |-> <<>>]

Called(args) == [called |-> TRUE, args |-> args]

\* pygfx.Buffer over an array (in a Geometry): the buffer object, the array it
\* wraps, and the dirty range asked for.
Buffer(oid, data) == [oid |-> oid, data |-> data, update_range |-> NotCalled]

(* ------------------------------ Scatter ------------------------------- *)

\* Scatter._process_positions: a 1-D array becomes a 2-D array of one row.
Scatter_process_positions(positions) ==
    IF ndim(positions) = 1
    THEN NdArray(positions.dtype, <<1, positions.shape[1]>>, positions.flat)
    ELSE positions

\* pygfx.Points(pygfx.Geometry(positions=...), pygfx.PointsMaterial(size, color)):
\* the object, its position buffer and its material.
Points(oid, positions, size, color) ==
    [oid |-> oid,
     positions |-> Buffer(oid + 1, positions),
     material |-> [size |-> size, color |-> color]]

\* The loop of Scatter.__init__: one Points per distinct colour row.
Scatter_points(self_data, self_colors, size, id0) ==
    LET uniq == np_unique_rows(self_colors)
    IN  [k \in 1..Len(uniq) |->
            Points(id0 + 2 * k - 1,
                   Scatter_process_positions(
                       bool_index(self_data, row_mask(self_colors, uniq[k]))),
                   size, uniq[k])]

\* Scatter.__init__: what it raises, the object when it ends, the record of
\* _set_colors, and the number of scene objects and buffers it allocated.
Scatter_init(data, size, colors, cmap, id0) ==
    LET g    == _Graphic_init(data, colors, PyNone, cmap, One)
        base == [cls |-> "Scatter", data |-> g.self.data, colors |-> g.self.colors,
                 world_object |-> PyNone, points_objects |-> <<>>]
        grp  == [base EXCEPT !.world_object = [t |-> "Group", oid |-> id0, children |-> <<>>]]
    IN  IF g.raised # NoError
        THEN [raised |-> g.raised, self |-> base, sc |-> g.sc, allocated |-> 0]
        ELSE IF IsNone(g.self.colors)
        THEN [raised |-> ErrAxis, self |-> grp, sc |-> g.sc, allocated |-> 1]
        ELSE IF shape(g.self.colors)[1] # shape(g.self.data)[1]
        THEN [raised |-> ErrIndex, self |-> grp, sc |-> g.sc, allocated |-> 1]
        ELSE LET pts == Scatter_points(g.self.data, g.self.colors, size, id0)
             IN  [raised |-> NoError,
                  self |-> [grp EXCEPT !.points_objects = pts,
                                       !.world_object.children =
                                           [k \in DOMAIN pts |-> pts[k].oid]],
                  sc |-> g.sc,
                  allocated |-> 1 + 2 * Len(pts)]

\* The mutant: every colour group's buffer is overwritten.
Scatter_update_all(points_objects, positions) ==
    [k \in DOMAIN points_objects |->
        [points_objects[k] EXCEPT
            !.positions.data = broadcast_to(positions, shape(@)),
            !.positions.update_range = Called(<<shape(positions)[1]>>)]]

\* The assignments of Scatter.update_data: the first colour group's buffer is
\* overwritten in place and update_range(positions.shape[0]) is called on it.
Scatter_update_first(points_objects, positions) ==
    [points_objects EXCEPT
        ![1].positions.data = broadcast_to(positions, shape(@)),
        ![1].positions.update_range = Called(<<shape(positions)[1]>>)]

\* Scatter.update_data: what it raises and the object after it.
Scatter_update_data(self, data) ==
    LET positions == astype_float32(Scatter_process_positions(data))
    IN  IF ~broadcastable(shape(positions), shape(self.points_objects[1].positions.data))
        THEN [raised |-> ErrBroadcast, self |-> self]
        ELSE [raised |-> NoError,
              self |-> [self EXCEPT !.points_objects =
                            Scatter_update_first(self.points_objects, positions)]]

(* -------------------------------- Line -------------------------------- *)

\* The material class chosen by Line.__init__.
Line_material(size) ==
    IF 10 * size < 11 THEN "LineThinMaterial" ELSE "LineMaterial"

\* Line.__init__: what it raises, the object when it ends, the record of
\* _set_colors, and the number of scene objects and buffers it allocated.
\* geometry_accepts_none: whether pygfx.Geometry accepts colors=None.
Line_init(data, size, colors, cmap, id0, geometry_accepts_none) ==
    LET g    == _Graphic_init(data, colors, PyNone, cmap, One)
        base == [cls |-> "Line", data |-> g.self.data, colors |-> g.self.colors,
                 world_object |-> PyNone]
    IN  IF g.raised # NoError
        THEN [raised |-> g.raised, self |-> base, sc |-> g.sc, allocated |-> 0]
        ELSE IF IsNone(g.self.colors) /\ ~geometry_accepts_none
        THEN [raised |-> ErrGeometry, self |-> base, sc |-> g.sc, allocated |-> 0]
        ELSE [raised |-> NoError,
              self |-> [base EXCEPT !.world_object =
                           [t |-> "Line", oid |-> id0,
                            geometry |-> [positions |-> Buffer(id0 + 1, g.self.data),
                                          colors |-> Buffer(id0 + 2, g.self.colors)],
                            material |-> [type |-> Line_material(size),
                                          thickness |-> size,
                                          vertex_colors |-> TRUE]]],
              sc |-> g.sc, allocated |-> 3]

\* The mutant: update_data builds a new position buffer for the new data.
Line_positions_reallocated(positions, self_data) ==
    Buffer(positions.oid + 100, self_data)

\* The assignments of Line.update_data to the position buffer: overwritten in
\* place, then update_range().
Line_positions_updated(positions, self_data) ==
    [positions EXCEPT !.data = broadcast_to(self_data, shape(@)),
                      !.update_range = Called(<<>>)]

\* Line.update_data: what it raises and the object after it.
Line_update_data(self, data) ==
    LET self_data == astype_float32(data)
        rebound   == [self EXCEPT !.data = self_data]
    IN  IF ~broadcastable(shape(self_data), shape(self.world_object.geometry.positions.data))
        THEN [raised |-> ErrBroadcast, self |-> rebound]
        ELSE [raised |-> NoError,
              self |-> [rebound EXCEPT !.world_object.geometry.positions =
                            Line_positions_updated(@, self_data)]]

(* ------------------------------- Image -------------------------------- *)

\* The least and the greatest element of an array.
ArrayMin(a) == CHOOSE m \in {a.flat[i] : i \in DOMAIN a.flat} :
                   \A i \in DOMAIN a.flat : m <= a.flat[i]

ArrayMax(a) == CHOOSE m \in {a.flat[i] : i \in DOMAIN a.flat} :
                   \A i \in DOMAIN a.flat : m >= a.flat[i]

\* utils.quick_min_max: the (approximate) minimum and maximum of an array; exact
\* on arrays too small to be subsampled.
quick_min_max(data) == <<ArrayMin(data), ArrayMax(data)>>

\* utils.get_cmap_texture: the texture of a named colormap.
get_cmap_texture(cmap) ==
    IF IsNone(cmap) \/ cmap.s \notin KnownCmaps
    THEN [raised |-> ErrLookup, val |-> PyNone]
    ELSE [raised |-> NoError, val |-> [t |-> "Texture", cmap |-> cmap.s]]

\* pygfx.Texture(data, dim=2): the texture object, the array it wraps and its
\* size (columns, rows, 1).
Texture(oid, data) ==
    [oid |-> oid, data |-> data, size |-> <<shape(data)[2], shape(data)[1], 1>>,
     update_range |-> NotCalled]

\* Image.__init__: what it raises, the object when it ends, the record of
\* _set_colors, and the number of scene objects and textures it allocated.
Image_init(data, vmin, vmax, cmap, colors, id0) ==
    LET g    == _Graphic_init(data, colors, PyNone, cmap, One)
        base == [cls |-> "Image", data |-> g.self.data, colors |-> g.self.colors,
                 texture |-> PyNone, world_object |-> PyNone]
        clim == IF IsNone(vmin) \/ IsNone(vmax) THEN quick_min_max(data)
                ELSE <<vmin.x, vmax.x>>
        tex  == [base EXCEPT !.texture = Texture(id0, g.self.data)]
        map  == get_cmap_texture(cmap)
    IN  IF g.raised # NoError
        THEN [raised |-> g.raised, self |-> base, sc |-> g.sc, allocated |-> 0]
        ELSE IF map.raised # NoError
        THEN [raised |-> map.raised, self |-> tex, sc |-> g.sc, allocated |-> 1]
        ELSE [raised |-> NoError,
              self |-> [tex EXCEPT !.world_object =
                           [t |-> "Image", oid |-> id0 + 1,
                            geometry |-> [grid |-> [texture |-> id0, filter |-> "nearest"]],
                            material |-> [clim |-> clim, map |-> map.val]]],
              sc |-> g.sc, allocated |-> 2]

\* The assignments of Image.update_data to the texture: its array is
\* overwritten in place, then update_range((0, 0, 0), size).
Image_texture_updated(texture, data) ==
    [texture EXCEPT !.data = broadcast_to(data, shape(@)),
                    !.update_range = Called(<< <<0, 0, 0>>, texture.size >>)]

\* Image.update_data: what it raises and the object after it.  self.data is the
\* array the texture wraps.
Image_update_data(self, data) ==
    IF ~broadcastable(shape(data), shape(self.texture.data))
    THEN [raised |-> ErrBroadcast, self |-> self]
    ELSE LET tex == Image_texture_updated(self.texture, data)
         IN  [raised |-> NoError,
              self |-> [self EXCEPT !.texture = tex, !.data = tex.data]]

\* The clim setter of Image.
Image_set_clim(self, levels) ==
    [raised |-> NoError, self |-> [self EXCEPT !.world_object.material.clim = levels]]

\* Image.update_cmap
Image_update_cmap(self, cmap, alpha) ==
    LET map == get_cmap_texture(cmap)
    IN  IF map.raised # NoError THEN [raised |-> map.raised, self |-> self]
        ELSE [raised |-> NoError,
              self |-> [self EXCEPT !.world_object.material.map = map.val]]

(* ----------------------------- Histogram ------------------------------ *)

\* np.histogram(data, bins) for an integer `bins` that divides the span of the
\* samples: the counts and the bins + 1 equally spaced edges from the least to
\* the greatest sample; the last bin includes its right edge.
np_histogram(data, bins) ==
    LET lo == ArrayMin(data)
        hi == ArrayMax(data)
        w  == (hi - lo) \div bins
        binOf(x) == IF x = hi THEN bins ELSE ((x - lo) \div w) + 1
    IN  [hist |-> Array1("int64",
                         [i \in 1..bins |->
                             Cardinality({k \in DOMAIN data.flat : binOf(data.flat[k]) = i})]),
         bin_edges |-> Array1("float64", [i \in 1..(bins + 1) |-> lo + (i - 1) * w])]

\* The mutant: a dict that holds the two keys among others is accepted.
pre_computed_keys_ok_superset(pre_computed) ==
    {"hist", "bin_edges"} \subseteq DOMAIN pre_computed

\* set(pre_computed.keys()) == {'hist', 'bin_edges'}
pre_computed_keys_ok(pre_computed) ==
    DOMAIN pre_computed = {"hist", "bin_edges"}

\* all(type(v) is np.ndarray for v in pre_computed.values())
pre_computed_values_ok(pre_computed) ==
    \A k \in DOMAIN pre_computed : pre_computed[k].t = "ndarray"

\* ((bin_edges - bin_edges.min()) / np.ptp(bin_edges)) * draw_scale_factor; the
\* scale factors of the model make the quotients whole numbers.
scaled_bin_edges(bin_edges, draw_scale_factor) ==
    LET lo  == ArrayMin(bin_edges)
        ptp == ArrayMax(bin_edges) - lo
    IN  [i \in DOMAIN bin_edges.flat |->
            ((bin_edges.flat[i] - lo) * draw_scale_factor) \div ptp]

\* bin_interval = scaled_bin_edges[1] / 2 and
\* (scaled_bin_edges + bin_interval)[:-1].astype(np.float32)
x_positions_bins(scaled) ==
    [i \in 1..(Len(scaled) - 1) |-> Float32(scaled[i] + scaled[2] \div 2)]

\* The loop of Histogram.__init__: one plane mesh per bin, of size
\* (bin_width, count), at (x, count / 2, 0).
Histogram_meshes(x_positions, hist, bin_width, id0) ==
    [i \in DOMAIN x_positions |->
        [oid |-> id0 + i,
         geometry |-> [width |-> bin_width, height |-> hist.flat[i]],
         position |-> [x |-> x_positions[i],
                       y |-> [num |-> hist.flat[i], den |-> 2],
                       z |-> 0]]]

\* The object before Histogram.__init__ has assigned anything.
Histogram_blank ==
    [cls |-> "Histogram", hist |-> PyNone, bin_edges |-> PyNone, data |-> PyNone,
     colors |-> PyNone, world_object |-> PyNone]

\* Histogram.__init__ from the point where hist and bin_edges are known.
Histogram_build(hist0, bin_edges, colors, draw_scale_factor, draw_bin_width_scale, id0) ==
    LET scaled    == scaled_bin_edges(bin_edges, draw_scale_factor)
        x         == x_positions_bins(scaled)
        n_bins    == Len(x)
        bin_width == (draw_scale_factor \div n_bins) * draw_bin_width_scale
        hist      == astype_float32(hist0)
        set       == [Histogram_blank EXCEPT !.hist = hist, !.bin_edges = bin_edges]
    IN  IF ndim(hist) # 1 \/ shape(hist)[1] # n_bins
        THEN [raised |-> ErrStack, self |-> set, sc |-> NoSetColors, allocated |-> 0]
        ELSE LET g == _Graphic_init(Array2("float32", <<x, hist.flat>>), colors,
                                    PyInt(n_bins), PyNone, One)
                 colored == [set EXCEPT !.data = g.self.data, !.colors = g.self.colors]
             IN  IF g.raised # NoError
                 THEN [raised |-> g.raised, self |-> colored, sc |-> g.sc, allocated |-> 0]
                 ELSE [raised |-> NoError,
                       self |-> [colored EXCEPT !.world_object =
                                    [t |-> "Group", oid |-> id0,
                                     children |-> Histogram_meshes(x, hist, bin_width, id0)]],
                       sc |-> g.sc, allocated |-> 1 + n_bins]

\* Histogram.__init__: what it raises, the object when it ends, the record of
\* _set_colors, and the number of scene objects it allocated.
Histogram_init(data, bins, pre_computed, colors, draw_scale_factor, draw_bin_width_scale, id0) ==
    IF pre_computed.t = "NoneType"
    THEN LET h == np_histogram(data, bins)
         IN  Histogram_build(h.hist, h.bin_edges, colors, draw_scale_factor,
                             draw_bin_width_scale, id0)
    ELSE IF ~pre_computed_keys_ok(pre_computed.d)
    THEN [raised |-> ErrPreComputedKeys, self |-> Histogram_blank,
          sc |-> NoSetColors, allocated |-> 0]
    ELSE IF ~pre_computed_values_ok(pre_computed.d)
    THEN [raised |-> ErrPreComputedValues, self |-> Histogram_blank,
          sc |-> NoSetColors, allocated |-> 0]
    ELSE Histogram_build(pre_computed.d["hist"], pre_computed.d["bin_edges"], colors,
                         draw_scale_factor, draw_bin_width_scale, id0)

(* -------------------------------- Plot -------------------------------- *)

\* Subplot.add_graphic: the graphic joins the graphics of the container.
add_graphic(graphics, id) == Append(graphics, id)

\* The mutant: the graphic is registered whether or not its constructor raised.
Plot_register_always(graphics, raised, id) == add_graphic(graphics, id)

\* Plot._create_graphic after the constructor call: add_graphic is reached
\* only when graphic_class(*args, **kwargs) returned.
Plot_create_graphic(graphics, raised, id) ==
    IF raised # NoError THEN graphics ELSE add_graphic(graphics, id)

(* --------------------------- call arguments --------------------------- *)

\* The sequences over S of length 1..n.
SeqsUpTo(S, n) == UNION {[1..k -> S] : k \in 1..n}

\* Position rows: 2-D and 3-D points; 2^24 + 1 is not a float32 value.
PosRows2 == {<<0, 0>>, <<1, 2^24 + 1>>}

PosRows3 == {<<0, 1, 2>>}

\* `data` as an (N, D) array.
Data2Args ==
    {Array2("float64", v) : v \in SeqsUpTo(PosRows2, MaxN) \cup SeqsUpTo(PosRows3, MaxN)}

\* `data` of a graphic: an (N, D) array, or one point as a 1-D array of
\* length D.
DataArgs == Data2Args \cup {Array1("float64", r) : r \in PosRows2 \cup PosRows3}

\* `data` of update_data: for each row count, two (N, 2) arrays and one (N, 3)
\* array, and one point as a 1-D array; 2^24 + 3 is not a float32 value.
UpdateDataArgs ==
    UNION {{Array2("float64", [i \in 1..n |-> <<10 + i, 2^24 + 3>>]),
            Array2("float64", [i \in 1..n |-> <<0, 0>>]),
            Array2("float64", [i \in 1..n |-> <<10 + i, 0, 2^24 + 3>>])} : n \in 1..MaxN}
    \cup {Array1("float64", <<7, 2^24 + 3>>)}

\* RGBA rows: red and green.
ColorRows == {<<One, 0, 0, One>>, <<0, One, 0, One>>}

\* The labels of a label array.
Labels == {0, 1}

\* `colors`: absent, suppressed, explicit RGBA, one RGBA row with a red of
\* 0.5 + 2^-25 (not a float32 value), an (1, 3) array, integer labels, a 1-D
\* float array.
ColorsArgs ==
    {PyNone, PyFalse}
    \cup {Array2("float64", v) : v \in SeqsUpTo(ColorRows, MaxN)}
    \cup {Array2("float64", << <<Half + 1, 0, 0, One>> >>)}
    \cup {Array2("float64", << <<One, 0, 0>> >>)}
    \cup {Array1("int64", v) : v \in SeqsUpTo(Labels, MaxN)}
    \cup {Array1("float64", <<One, 0>>)}

\* `data` of a _Graphic: one array of each row count, and one 1-D array.
GraphicDataArgs ==
    {Array2("float64", [i \in 1..n |-> <<i, 2^24 + 1>>]) : n \in 1..MaxN}
    \cup {Array1("float64", <<0, 1>>)}

\* (colors, cmap) of a Line: white, a colormap, suppressed, red for k points,
\* float colours together with a colormap.
LineColorsArgs ==
    {<<PyNone, PyNone>>, <<PyNone, PyStr("plasma")>>, <<PyFalse, PyNone>>,
     <<Array2("float64", << <<One, 0, 0, One>> >>), PyStr("plasma")>>}
    \cup {<<Array2("float64", [i \in 1..k |-> <<One, 0, 0, One>>]), PyNone>> : k \in 1..MaxN}

\* `cmap`: absent, a known name, an unknown name.
CmapArgs == {PyNone, PyStr("plasma"), PyStr("nope")}

\* `colors_length`: absent, or a count.
LengthArgs == {PyNone} \cup {PyInt(n) : n \in 1..MaxN}

\* `alpha`
AlphaArgs == {One, Half}

\* `size` of a Line: below and above the threshold of 1.1.
SizeArgs == {1, 2}

\* `colors` of an Image (passed on to _Graphic.__init__).
ImageColorsArgs == {PyNone, PyFalse, Array2("float64", << <<One, 0, 0, One>> >>)}

\* (vmin, vmax) of an Image: both absent, one absent, both given.
ClimArgs == {<<PyNone, PyNone>>, <<PyInt(0), PyNone>>, <<PyInt(0), PyInt(5)>>}

\* Samples and `bins` of a computed histogram: 1-D samples that are not all
\* equal, and a bin count that divides their span.
HistogramDataArgs ==
    {<<Array1("float64", v), b>> : v \in SeqsUpTo(0..MaxEdge, MaxN + 1), b \in 1..MaxN} 

\* Strictly increasing bin edges: 2 to MaxN + 1 of the values 0..MaxEdge.
EdgesArgs ==
    {e \in UNION {[1..k -> 0..MaxEdge] : k \in 2..(MaxN + 1)} :
        \A i \in 1..(Len(e) - 1) : e[i] < e[i + 1]}

\* The `pre_computed` dicts over n counts and the edges e: the two arrays, a
\* missing key, a misspelt key, an extra key, a list as a value.
PreComputedOf(e, n) ==
    LET h == Array1("int64", [i \in 1..n |-> i])
        b == Array1("float64", e)
    IN  {[t |-> "dict", d |-> [hist |-> h, bin_edges |-> b]],
         [t |-> "dict", d |-> [hist |-> h]],
         [t |-> "dict", d |-> [hist |-> h, edges |-> b]],
         [t |-> "dict", d |-> [hist |-> h, bin_edges |-> b, density |-> h]],
         [t |-> "dict", d |-> [hist |-> PyList(h.flat), bin_edges |-> b]]}

\* `pre_computed`: counts of as many bins as the edges bound, or of one more.
PreComputedArgs ==
    UNION {PreComputedOf(e, Len(e) - 1) \cup PreComputedOf(e, Len(e)) : e \in EdgesArgs}

\* `colors` of a Histogram: absent, red for k bins, an (1, 3) array.
HistogramColorsArgs ==
    {PyNone, Array2("float64", << <<One, 0, 0>> >>)}
    \cup {Array2("float64", [i \in 1..k |-> <<One, 0, 0, One>>]) : k \in 1..MaxN}

\* draw_scale_factor: a factor that every span of the edges above divides
\* twice over, so that scaled edges and bin centres are whole numbers.
ScaleArgs == {120}

(* ------------------------------ actions ------------------------------- *)

Init ==
    /\ heap = <<>>
    /\ registered = <<>>
    /\ last = [op |-> "init"]
    /\ nextId = 1

\* g = _Graphic(data, colors, colors_length, cmap, alpha)
GraphicNew ==
    /\ last.op = "init"
    /\ \E data \in GraphicDataArgs, colors \in ColorsArgs, colors_length \in LengthArgs,
          cmap \in CmapArgs, alpha \in AlphaArgs :
          LET r   == _Graphic_init(data, colors, colors_length, cmap, alpha)
              obj == [cls |-> "_Graphic", data |-> r.self.data, colors |-> r.self.colors]
          IN  /\ heap' = IF r.raised = NoError THEN Append(heap, obj) ELSE heap
              /\ last' = [op |-> "new", cls |-> "_Graphic",
                          args |-> [data |-> data, colors |-> colors,
                                    colors_length |-> colors_length,
                                    cmap |-> cmap, alpha |-> alpha],
                          raised |-> r.raised, self |-> obj, sc |-> r.sc]
    /\ UNCHANGED <<registered, nextId>>

\* g.update_data(data) on a _Graphic
GraphicUpdateData ==
    /\ \E id \in DOMAIN heap, data \in GraphicDataArgs :
          /\ heap[id].cls = "_Graphic"
          /\ LET r == _Graphic_update_data(heap[id], data)
             IN  /\ heap' = [heap EXCEPT ![id] = r.self]
                 /\ last' = [op |-> "update_data", cls |-> "_Graphic", id |-> id,
                             args |-> [data |-> data],
                             raised |-> r.raised, self |-> r.self, sc |-> NoSetColors]
    /\ UNCHANGED <<registered, nextId>>

\* g = Scatter(data, size, colors, cmap)
ScatterNew ==
    /\ last.op = "init"
    /\ \E data \in DataArgs, colors \in ColorsArgs, cmap \in CmapArgs :
          LET r == Scatter_init(data, 1, colors, cmap, nextId)
          IN  /\ heap' = IF r.raised = NoError THEN Append(heap, r.self) ELSE heap
              /\ nextId' = IF r.raised = NoError THEN nextId + r.allocated ELSE nextId
              /\ last' = [op |-> "new", cls |-> "Scatter",
                          args |-> [data |-> data, colors |-> colors,
                                    colors_length |-> PyNone,
                                    cmap |-> cmap, alpha |-> One],
                          raised |-> r.raised, self |-> r.self, sc |-> r.sc]
    /\ UNCHANGED registered

\* g.update_data(data) on a Scatter
ScatterUpdateData ==
    /\ \E id \in DOMAIN heap, data \in UpdateDataArgs :
          /\ heap[id].cls = "Scatter"
          /\ LET r == Scatter_update_data(heap[id], data)
             IN  /\ heap' = [heap EXCEPT ![id] = r.self]
                 /\ last' = [op |-> "update_data", cls |-> "Scatter", id |-> id,
                             args |-> [data |-> data],
                             raised |-> r.raised, self |-> r.self, sc |-> NoSetColors]
    /\ UNCHANGED <<registered, nextId>>

\* g = Line(data, size, colors, cmap)
LineNew ==
    /\ last.op = "init"
    /\ \E data \in Data2Args, size \in SizeArgs, cc \in LineColorsArgs,
          geometry_accepts_none \in BOOLEAN :
          LET colors == cc[1]
              cmap   == cc[2]
              r == Line_init(data, size, colors, cmap, nextId, geometry_accepts_none)
          IN  /\ heap' = IF r.raised = NoError THEN Append(heap, r.self) ELSE heap
              /\ nextId' = IF r.raised = NoError THEN nextId + r.allocated ELSE nextId
              /\ last' = [op |-> "new", cls |-> "Line",
                          args |-> [data |-> data, size |-> size, colors |-> colors,
                                    colors_length |-> PyNone,
                                    cmap |-> cmap, alpha |-> One],
                          raised |-> r.raised, self |-> r.self, sc |-> r.sc]
    /\ UNCHANGED registered

\* g.update_data(data) on a Line
LineUpdateData ==
    /\ \E id \in DOMAIN heap, data \in UpdateDataArgs :
          /\ heap[id].cls = "Line"
          /\ LET r == Line_update_data(heap[id], data)
             IN  /\ heap' = [heap EXCEPT ![id] = r.self]
                 /\ last' = [op |-> "update_data", cls |-> "Line", id |-> id,
                             args |-> [data |-> data],
                             raised |-> r.raised, self |-> r.self, sc |-> NoSetColors]
    /\ UNCHANGED <<registered, nextId>>

\* g = Image(data, vmin, vmax, cmap, colors=colors)
ImageNew ==
    /\ last.op = "init"
    /\ \E data \in Data2Args, clim \in ClimArgs, cmap \in CmapArgs, colors \in ImageColorsArgs :
          LET r == Image_init(data, clim[1], clim[2], cmap, colors, nextId)
          IN  /\ heap' = IF r.raised = NoError THEN Append(heap, r.self) ELSE heap
              /\ nextId' = IF r.raised = NoError THEN nextId + r.allocated ELSE nextId
              /\ last' = [op |-> "new", cls |-> "Image",
                          args |-> [data |-> data, vmin |-> clim[1], vmax |-> clim[2],
                                    colors |-> colors, colors_length |-> PyNone,
                                    cmap |-> cmap, alpha |-> One],
                          raised |-> r.raised, self |-> r.self, sc |-> r.sc]
    /\ UNCHANGED registered

\* g.update_data(data) on an Image
ImageUpdateData ==
    /\ \E id \in DOMAIN heap, data \in UpdateDataArgs :
          /\ heap[id].cls = "Image"
          /\ LET r == Image_update_data(heap[id], data)
             IN  /\ heap' = [heap EXCEPT ![id] = r.self]
                 /\ last' = [op |-> "update_data", cls |-> "Image", id |-> id,
                             args |-> [data |-> data],
                             raised |-> r.raised, self |-> r.self, sc |-> NoSetColors]
    /\ UNCHANGED <<registered, nextId>>

\* g.clim = levels on an Image
ImageSetClim ==
    /\ \E id \in DOMAIN heap, levels \in {<<0, 1>>, <<0, 5>>} :
          /\ heap[id].cls = "Image"
          /\ LET r == Image_set_clim(heap[id], levels)
             IN  /\ heap' = [heap EXCEPT ![id] = r.self]
                 /\ last' = [op |-> "clim", cls |-> "Image", id |-> id,
                             args |-> [levels |-> levels],
                             raised |-> r.raised, self |-> r.self, sc |-> NoSetColors]
    /\ UNCHANGED <<registered, nextId>>

\* g.update_cmap(cmap, alpha) on an Image
ImageUpdateCmap ==
    /\ \E id \in DOMAIN heap, cmap \in CmapArgs \ {PyNone} :
          /\ heap[id].cls = "Image"
          /\ LET r == Image_update_cmap(heap[id], cmap, One)
             IN  /\ heap' = [heap EXCEPT ![id] = r.self]
                 /\ last' = [op |-> "update_cmap", cls |-> "Image", id |-> id,
                             args |-> [cmap |-> cmap, alpha |-> One],
                             raised |-> r.raised, self |-> r.self, sc |-> NoSetColors]
    /\ UNCHANGED <<registered, nextId>>

\* The state after Histogram(...) ended as r.
HistogramConstructed(r, args) ==
    /\ heap' = IF r.raised = NoError THEN Append(heap, r.self) ELSE heap
    /\ nextId' = IF r.raised = NoError THEN nextId + r.allocated ELSE nextId
    /\ last' = [op |-> "new", cls |-> "Histogram", args |-> args,
                raised |-> r.raised, self |-> r.self, sc |-> r.sc]

\* g = Histogram(data, bins, colors=colors, draw_scale_factor=...)
HistogramNew ==
    /\ last.op = "init"
    /\ \E db \in HistogramDataArgs, colors \in HistogramColorsArgs, scale \in ScaleArgs :
          /\ ArrayMin(db[1]) < ArrayMax(db[1])
          /\ (ArrayMax(db[1]) - ArrayMin(db[1])) % db[2] = 0
          /\ HistogramConstructed(
                 Histogram_init(db[1], db[2], PyNone, colors, scale, 1, nextId),
                 [data |-> db[1], bins |-> db[2], pre_computed |-> PyNone,
                  colors |-> colors, draw_scale_factor |-> scale])
    /\ UNCHANGED registered

\* g = Histogram(pre_computed=..., colors=colors, draw_scale_factor=...)
HistogramNewPreComputed ==
    /\ last.op = "init"
    /\ \E pre \in PreComputedArgs, colors \in HistogramColorsArgs, scale \in ScaleArgs :
          HistogramConstructed(
              Histogram_init(PyNone, PyStr("auto"), pre, colors, scale, 1, nextId),
              [data |-> PyNone, bins |-> PyStr("auto"), pre_computed |-> pre,
               colors |-> colors, draw_scale_factor |-> scale])
    /\ UNCHANGED registered

\* g.update_data(data) on a Histogram: the method inherited from _Graphic
HistogramUpdateData ==
    /\ \E id \in DOMAIN heap, data \in GraphicDataArgs :
          /\ heap[id].cls = "Histogram"
          /\ LET r == _Graphic_update_data(heap[id], data)
             IN  /\ heap' = [heap EXCEPT ![id] = r.self]
                 /\ last' = [op |-> "update_data", cls |-> "Histogram", id |-> id,
                             args |-> [data |-> data],
                             raised |-> r.raised, self |-> r.self, sc |-> NoSetColors]
    /\ UNCHANGED <<registered, nextId>>

\* The arguments of the calls a client makes on a Plot.
PlotData == Array2("float64", << <<0, 0>>, <<1, 2^24 + 1>> >>)

\* (colors, cmap) of plot.scatter: white, two colours, one colour row too few,
\* an unknown colormap, float colours together with a colormap, a label per
\* point, one label for two points.
PlotScatterArgs ==
    {<<PyNone, PyNone>>,
     <<Array2("float64", << <<One, 0, 0, One>>, <<0, One, 0, One>> >>), PyNone>>,
     <<Array2("float64", << <<One, 0, 0, One>> >>), PyNone>>,
     <<PyNone, PyStr("nope")>>,
     <<Array2("float64", << <<One, 0, 0, One>>, <<0, One, 0, One>> >>), PyStr("plasma")>>,
     <<Array1("int64", <<0, 1>>), PyStr("plasma")>>,
     <<Array1("int64", <<0>>), PyStr("plasma")>>}

\* (colors, cmap) of plot.line: a known and an unknown colormap, two colours.
PlotLineArgs ==
    {<<PyNone, PyStr("plasma")>>,
     <<PyNone, PyStr("nope")>>,
     <<Array2("float64", << <<One, 0, 0, One>>, <<0, One, 0, One>> >>), PyNone>>}

\* cmap of plot.image: a known colormap, an unknown one, none.
PlotImageArgs == {PyStr("plasma"), PyStr("nope"), PyNone}

\* pre_computed of plot.histogram
PlotHistogramArgs ==
    {[t |-> "dict", d |-> [hist |-> Array1("int64", <<2, 1>>),
                           bin_edges |-> Array1("float64", <<0, 1, 3>>)]],
     [t |-> "dict", d |-> [hist |-> Array1("int64", <<2, 1>>)]],
     [t |-> "dict", d |-> [hist |-> PyList(<<2, 1>>),
                           bin_edges |-> Array1("float64", <<0, 1, 3>>)]]}

\* Plot._create_graphic(graphic_class, ...) whose constructor call ended as r:
\* the graphic is registered and returned unless the constructor raised.
PlotCreateGraphic(r, cls, args) ==
    /\ heap' = IF r.raised = NoError THEN Append(heap, r.self) ELSE heap
    /\ nextId' = IF r.raised = NoError THEN nextId + r.allocated ELSE nextId
    /\ registered' = Plot_create_graphic(registered, r.raised, Len(heap) + 1)
    /\ last' = [op |-> "new", cls |-> cls, args |-> args,
                raised |-> r.raised, self |-> r.self, sc |-> r.sc]

\* plot.scatter(data, colors=colors, cmap=cmap)
PlotScatter ==
    /\ Len(heap) < MaxGraphics
    /\ \E a \in PlotScatterArgs :
           PlotCreateGraphic(Scatter_init(PlotData, 1, a[1], a[2], nextId), "Scatter",
                             [data |-> PlotData, colors |-> a[1], colors_length |-> PyNone,
                              cmap |-> a[2], alpha |-> One])

\* plot.line(data, colors=colors, cmap=cmap)
PlotLine ==
    /\ Len(heap) < MaxGraphics
    /\ \E a \in PlotLineArgs :
           PlotCreateGraphic(Line_init(PlotData, 2, a[1], a[2], nextId, FALSE), "Line",
                             [data |-> PlotData, size |-> 2, colors |-> a[1],
                              colors_length |-> PyNone, cmap |-> a[2], alpha |-> One])

\* plot.image(data, cmap=cmap)
PlotImage ==
    /\ Len(heap) < MaxGraphics
    /\ \E cmap \in PlotImageArgs :
           PlotCreateGraphic(Image_init(PlotData, PyNone, PyNone, cmap, PyNone, nextId), "Image",
                             [data |-> PlotData, vmin |-> PyNone, vmax |-> PyNone,
                              colors |-> PyNone, colors_length |-> PyNone,
                              cmap |-> cmap, alpha |-> One])

\* plot.histogram(pre_computed=pre)
PlotHistogram ==
    /\ Len(heap) < MaxGraphics
    /\ \E pre \in PlotHistogramArgs, scale \in ScaleArgs :
           PlotCreateGraphic(Histogram_init(PyNone, PyStr("auto"), pre, PyNone, scale, 1, nextId),
                             "Histogram",
                             [data |-> PyNone, bins |-> PyStr("auto"), pre_computed |-> pre,
                              colors |-> PyNone, draw_scale_factor |-> scale])

(* --------------------------- specifications --------------------------- *)

\* A client that constructs a _Graphic and calls its update_data.
NextGraphic == GraphicNew \/ GraphicUpdateData

SpecGraphic == Init /\ [][NextGraphic]_vars

\* A client that constructs a Scatter and updates it.
NextScatter == ScatterNew \/ ScatterUpdateData

SpecScatter == Init /\ [][NextScatter]_vars

\* A client that constructs a Line or an Image and works on it.
NextLineImage ==
    \/ LineNew
    \/ LineUpdateData
    \/ ImageNew
    \/ ImageUpdateData
    \/ ImageSetClim
    \/ ImageUpdateCmap

SpecLineImage == Init /\ [][NextLineImage]_vars

\* A client that constructs a Histogram.
NextHistogram == HistogramNew \/ HistogramNewPreComputed \/ HistogramUpdateData

SpecHistogram == Init /\ [][NextHistogram]_vars

\* A client that creates graphics through the methods of a Plot and carries on
\* when a call raises.
NextPlot == PlotScatter \/ PlotLine \/ PlotImage \/ PlotHistogram

SpecPlot == Init /\ [][NextPlot]_vars

(* ------------------------------- claims ------------------------------- *)

\* Value equality of two arrays (same shape, same numbers), whatever the dtype.
array_equal(a, b) ==
    /\ a.t = "ndarray" /\ b.t = "ndarray"
    /\ a.shape = b.shape
    /\ a.flat = b.flat

\* The last call was a constructor call that reached _set_colors.
ResolvedColours == last.op = "new" /\ last.sc.called

\* y is x rounded to float32: a float32 value, nearest to x, and x itself when
\* x is a float32 value.
IsFloat32(n) == Abs(n) % Ulp(Abs(n)) = 0

RoundedToFloat32(x, y) ==
    /\ IsFloat32(y)
    /\ 2 * Abs(y - x) <= Ulp(Abs(x))
    /\ IsFloat32(x) => y = x

\* C1: colour resolution with both `colors` and `cmap` present, where `colors`
\* is not a 1-D integer array, fails with the "unknown color format" error; it
\* never returns normally.
C1_UnknownFormatRaises ==
    (/\ ResolvedColours
     /\ ~IsNone(last.sc.colors)
     /\ ~IsNone(last.sc.cmap)
     /\ ~(ndim(last.sc.colors) = 1 /\ last.sc.colors.dtype = "int64"))
    => last.sc.raised = ErrUnknownColorFormat

\* C2: for every colour specification that resolution accepts (default white,
\* colormap only, explicit RGBA, integer labels with a colormap) and every
\* count, the resolved colours have exactly `count` rows and 4 columns.
C2_ResolvedShape ==
    (/\ ResolvedColours
     /\ last.sc.raised = NoError
     /\ \/ IsNone(last.sc.colors)
        \/ IsNone(last.sc.cmap)
        \/ (ndim(last.sc.colors) = 1 /\ last.sc.colors.dtype = "int64"))
    => /\ last.sc.self_colors.t = "ndarray"
       /\ shape(last.sc.self_colors) = <<last.sc.colors_length, 4>>

\* C3 as stated: with `colors` present and `cmap` absent, `colors` is accepted
\* only if its shape is (count, 4) and is then stored with its values
\* unchanged; any other `colors` raises the validation error and no resolved
\* colours are stored.
C3_ExplicitUnchanged ==
    (ResolvedColours /\ ~IsNone(last.sc.colors) /\ IsNone(last.sc.cmap))
    => IF shape(last.sc.colors) = <<last.sc.colors_length, 4>>
       THEN /\ last.sc.raised = NoError
            /\ array_equal(last.sc.self_colors, last.sc.colors)
       ELSE /\ last.sc.raised = ErrColorsShape
            /\ IsNone(last.sc.self_colors)
            /\ IsNone(last.self.colors)

\* C3 as amended: with `colors` present and `cmap` absent, `colors` is accepted
\* only if its shape is (count, 4) and is then stored cast to float32: same
\* shape, every value rounded to the nearest float32 value and unchanged when
\* it is one already; any other `colors` raises the validation error and no
\* resolved colours are stored.
C3_ExplicitCastToFloat32 ==
    (ResolvedColours /\ ~IsNone(last.sc.colors) /\ IsNone(last.sc.cmap))
    => IF shape(last.sc.colors) = <<last.sc.colors_length, 4>>
       THEN /\ last.sc.raised = NoError
            /\ last.sc.self_colors.t = "ndarray"
            /\ last.sc.self_colors.dtype = "float32"
            /\ shape(last.sc.self_colors) = shape(last.sc.colors)
            /\ \A k \in DOMAIN last.sc.colors.flat :
                   RoundedToFloat32(last.sc.colors.flat[k], last.sc.self_colors.flat[k])
            /\ last.self.colors = last.sc.self_colors
       ELSE /\ last.sc.raised = ErrColorsShape
            /\ IsNone(last.sc.self_colors)
            /\ IsNone(last.self.colors)
            /\ heap = <<>>

\* Explicit colours were accepted and a value of theirs is not a float32 value;
\* and explicit colours of a wrong row count were rejected.
C3_Witness ==
    /\ ResolvedColours /\ ~IsNone(last.sc.colors) /\ IsNone(last.sc.cmap)
    /\ last.sc.raised = NoError
    /\ \E k \in DOMAIN last.sc.colors.flat : ~IsFloat32(last.sc.colors.flat[k])

\* The number of places of a sequence that hold r.
CountIn(rows, r) == Cardinality({i \in DOMAIN rows : rows[i] = r})

\* The total number of position rows of the sub-objects of a Scatter.
SumOfPoints(pts) ==
    LET F[k \in 0..Len(pts)] ==
            IF k = 0 THEN 0 ELSE F[k - 1] + shape(pts[k].positions.data)[1]
    IN  F[Len(pts)]

\* The last call constructed a Scatter from an (N, D) array of positions.
ScatterBuilt ==
    /\ last.op = "new" /\ last.cls = "Scatter" /\ last.raised = NoError
    /\ ndim(last.self.data) = 2

\* C4: after constructing a Scatter from N positions (the graphic's float32
\* data) and N resolved colours, there are as many point sub-objects as
\* distinct colour rows, each sub-object holds exactly the positions whose
\* colour row is its colour, and the sub-objects partition the positions:
\* every position is in exactly one sub-object, none is added or lost.
C4_ScatterGrouping ==
    ScatterBuilt =>
        LET pos == Rows(last.self.data)
            col == Rows(last.self.colors)
            pts == last.self.points_objects
        IN  /\ heap = <<last.self>>
            /\ Len(col) = Len(pos)
            /\ Len(pts) = Cardinality({col[i] : i \in DOMAIN col})
            /\ \A k \in DOMAIN pts :
                   /\ ndim(pts[k].positions.data) = 2
                   /\ \A r \in {pos[i] : i \in DOMAIN pos}
                            \cup {Rows(pts[k].positions.data)[j] :
                                      j \in 1..shape(pts[k].positions.data)[1]} :
                          CountIn(Rows(pts[k].positions.data), r) =
                              Cardinality({i \in DOMAIN pos :
                                              pos[i] = r /\ col[i] = pts[k].material.color})
            /\ \A i \in DOMAIN pos :
                   Cardinality({k \in DOMAIN pts : pts[k].material.color = col[i]}) = 1
            /\ SumOfPoints(pts) = Len(pos)

\* A Scatter of three positions in two colour groups, one of them of two points.
C4_Witness ==
    /\ ScatterBuilt
    /\ shape(last.self.data)[1] = 3
    /\ Len(last.self.points_objects) = 2
    /\ \E k \in DOMAIN last.self.points_objects :
           shape(last.self.points_objects[k].positions.data)[1] = 2

\* C5: across every step, a Scatter keeps its sub-objects: as many, the same
\* objects with the same position buffers in the same group, and every colour
\* group but the first keeps its positions; a successful update_data(data)
\* overwrites the first group's buffer with the new data, cast to float32 and
\* broadcast to the buffer's shape.
C5_ScatterUpdateFirstOnly ==
    [][\A id \in DOMAIN heap :
          heap[id].cls = "Scatter" =>
              LET old == heap[id].points_objects
                  new == heap'[id].points_objects
              IN  /\ id \in DOMAIN heap'
                  /\ heap'[id].world_object = heap[id].world_object
                  /\ Len(new) = Len(old)
                  /\ \A k \in DOMAIN old :
                         /\ new[k].oid = old[k].oid
                         /\ new[k].positions.oid = old[k].positions.oid
                         /\ new[k].material = old[k].material
                         /\ shape(new[k].positions.data) = shape(old[k].positions.data)
                         /\ k > 1 => new[k].positions = old[k].positions
                  /\ (last'.op = "update_data" /\ last'.id = id /\ last'.raised = NoError) =>
                         LET x == last'.args.data
                             d == shape(new[1].positions.data)
                             r == IF ndim(x) = 1 THEN 1 ELSE shape(x)[1]
                             c == IF ndim(x) = 1 THEN shape(x)[1] ELSE shape(x)[2]
                         IN  \A i \in 1..d[1], j \in 1..d[2] :
                                 RoundedToFloat32(
                                     x.flat[((IF r = 1 THEN 1 ELSE i) - 1) * c
                                            + (IF c = 1 THEN 1 ELSE j)],
                                     new[1].positions.data.flat[(i - 1) * d[2] + j])
                  /\ (last'.op = "update_data" /\ last'.raised # NoError) =>
                         heap' = heap
      ]_vars

\* update_data succeeded on a Scatter of two colour groups and changed the
\* first group's positions.
C5_Witness ==
    /\ last.op = "update_data" /\ last.cls = "Scatter" /\ last.raised = NoError
    /\ Len(heap[last.id].points_objects) >= 2
    /\ shape(heap[last.id].points_objects[1].positions.data)[1] >= 2
    /\ heap[last.id].points_objects[1].positions.update_range.called

\* C10: a Scatter constructed from a single point given as a 1-D position of
\* length D is promoted to (1, D) before colours are counted and grouped: the
\* datapoint count used for colour resolution is 1, an explicit colour array of
\* shape (1, 4) is accepted, and the result is one sub-object of one point.
C10_SinglePointPromoted ==
    (last.op = "new" /\ last.cls = "Scatter" /\ ndim(last.args.data) = 1) =>
        /\ last.sc.called => last.sc.colors_length = 1
        /\ (/\ ~IsNone(last.args.colors)
            /\ last.args.colors.t = "ndarray"
            /\ shape(last.args.colors) = <<1, 4>>
            /\ IsNone(last.args.cmap))
           => /\ last.raised = NoError
              /\ Len(last.self.points_objects) = 1
              /\ shape(last.self.points_objects[1].positions.data) =
                     <<1, shape(last.args.data)[1]>>

\* The position buffer of a Line, the texture of an Image.
StoredBuffer(g) ==
    IF g.cls = "Line" THEN g.world_object.geometry.positions ELSE g.texture

\* C6 as stated: after update_data(X) on a Line or an Image, the scene
\* object's stored buffer equals X.
C6_BufferEqualsData ==
    (/\ last.op = "update_data" /\ last.cls \in {"Line", "Image"}
     /\ last.raised = NoError)
    => array_equal(StoredBuffer(heap[last.id]).data, last.args.data)

\* C6 as amended: a call update_data(X) on a Line or an Image that returns
\* leaves the stored buffer equal to X cast to float32 and broadcast to the
\* buffer's shape (X itself when X has that shape and float32 values); a second
\* call with the same X changes nothing; and across every step the scene
\* object and its buffer stay the objects created at construction, with the
\* shape they had.
C6_BufferHoldsCastData ==
    [][\A id \in DOMAIN heap :
          heap[id].cls \in {"Line", "Image"} =>
              LET old == StoredBuffer(heap[id])
                  new == StoredBuffer(heap'[id])
              IN  /\ id \in DOMAIN heap'
                  /\ heap'[id].world_object.oid = heap[id].world_object.oid
                  /\ new.oid = old.oid
                  /\ shape(new.data) = shape(old.data)
                  /\ (last'.op = "update_data" /\ last'.id = id /\ last'.raised = NoError) =>
                         LET x == last'.args.data
                             d == shape(new.data)
                             r == IF ndim(x) = 1 THEN 1 ELSE shape(x)[1]
                             c == IF ndim(x) = 1 THEN shape(x)[1] ELSE shape(x)[2]
                         IN  /\ \A i \in 1..d[1], j \in 1..d[2] :
                                    RoundedToFloat32(
                                        x.flat[((IF r = 1 THEN 1 ELSE i) - 1) * c
                                               + (IF c = 1 THEN 1 ELSE j)],
                                        new.data.flat[(i - 1) * d[2] + j])
                             /\ (shape(x) = d /\ \A k \in DOMAIN x.flat : IsFloat32(x.flat[k]))
                                    => array_equal(new.data, x)
                  /\ (/\ last.op = "update_data" /\ last'.op = "update_data"
                      /\ last.id = id /\ last'.id = id
                      /\ last.args = last'.args
                      /\ last.raised = NoError /\ last'.raised = NoError)
                     => heap' = heap
      ]_vars

\* update_data(X) returned on a Line whose buffer has more rows than X, and X
\* holds a value that is not a float32 value.
C6_Witness ==
    /\ last.op = "update_data" /\ last.cls = "Line" /\ last.raised = NoError
    /\ ndim(last.args.data) = 2
    /\ shape(last.args.data)[1] < shape(StoredBuffer(heap[last.id]).data)[1]
    /\ \E k \in DOMAIN last.args.data.flat : ~IsFloat32(last.args.data.flat[k])
    /\ StoredBuffer(heap[last.id]).update_range.called

\* C7: a graphic created through the Plot is registered only after its
\* constructor has returned: a call whose constructor raises leaves the
\* registered graphics as they were, a call whose constructor returns appends
\* the new graphic, and every registered graphic is a constructed one.
C7_RegisteredOnlyWhenConstructed ==
    [][/\ last'.op = "new" =>
              IF last'.raised # NoError
              THEN registered' = registered /\ heap' = heap
              ELSE /\ heap' = Append(heap, last'.self)
                   /\ registered' = Append(registered, Len(heap'))
       /\ \A i \in DOMAIN registered' : registered'[i] \in DOMAIN heap'
      ]_vars

\* A constructor raised while a graphic was registered.
C7_Witness ==
    /\ last.op = "new" /\ last.raised # NoError
    /\ registered # <<>>
    /\ Len(registered) = Len(heap)

\* The last call constructed a Histogram from a pre_computed argument.
HistogramFromPreComputed ==
    /\ last.op = "new" /\ last.cls = "Histogram"
    /\ ~IsNone(last.args.pre_computed)

\* C8: Histogram construction with a pre_computed argument succeeds only if its
\* key set is exactly {hist, bin_edges} and both values are arrays; otherwise
\* it raises a validation error before colour resolution runs and before any
\* scene object is created.
C8_PreComputedValidated ==
    HistogramFromPreComputed =>
        LET d     == last.args.pre_computed.d
            valid == /\ DOMAIN d = {"hist", "bin_edges"}
                     /\ d["hist"].t = "ndarray"
                     /\ d["bin_edges"].t = "ndarray"
        IN  /\ last.raised = NoError => valid
            /\ ~valid =>
                   /\ last.raised \in {ErrPreComputedKeys, ErrPreComputedValues}
                   /\ ~last.sc.called
                   /\ IsNone(last.self.colors)
                   /\ IsNone(last.self.world_object)
                   /\ heap = <<>>
                   /\ nextId = 1

\* A pre_computed with an extra key was rejected.
C8_Witness ==
    /\ HistogramFromPreComputed
    /\ {"hist", "bin_edges"} \subseteq DOMAIN last.args.pre_computed.d
    /\ DOMAIN last.args.pre_computed.d # {"hist", "bin_edges"}
    /\ last.raised = ErrPreComputedKeys

\* C9: for a Histogram built from strictly increasing bin edges (computed or
\* pre-computed, uniform or not), the bin x-centers are strictly increasing,
\* there are len(bin_edges) - 1 of them, and each center is its bin's scaled
\* left edge plus half of that bin's interval.
C9_BinCenters ==
    (/\ last.op = "new" /\ last.cls = "Histogram" /\ last.raised = NoError
     /\ \A i \in 1..(shape(last.self.bin_edges)[1] - 1) :
            last.self.bin_edges.flat[i] < last.self.bin_edges.flat[i + 1])
    => LET x      == Rows(last.self.data)[1]
           scaled == scaled_bin_edges(last.self.bin_edges, last.args.draw_scale_factor)
       IN  /\ Len(x) = shape(last.self.bin_edges)[1] - 1
           /\ \A i \in 1..(Len(x) - 1) : x[i] < x[i + 1]
           /\ \A i \in DOMAIN x : 2 * x[i] = scaled[i] + scaled[i + 1]
           /\ \A i \in DOMAIN x :
                  last.self.world_object.children[i].position.x = x[i]

====
